---- MODULE Spec2Model ----
(***************************************************************************)
(* A model of src/player.py: the D3 record player.  main() parses the      *)
(* destination, creates a UDP socket, opens the input, and then runs the   *)
(* driver loop: read one record of Z_DATA_TYPE_SCI_L3_V3_SIZE bytes, and   *)
(* for each of its 100 frames build a payload out of the `data' field of   *)
(* the 36 PMT blocks, send it as one datagram and sleep.                   *)
(*                                                                         *)
(* Bytes are modelled by their provenance: a byte is identified with its   *)
(* position in the input stream (position 0 is the first byte).  A bytes   *)
(* object is the list of the stream positions it was copied from, held in  *)
(* run-length form: a sequence of runs [lo |-> a, hi |-> b], each standing *)
(* for the positions a, a+1, ..., b-1, no run empty and no two consecutive *)
(* runs adjacent, so that two byte strings copied from the same positions  *)
(* in the same order have the same representation.  record_data, the       *)
(* result of one read(), is always one contiguous run of the stream and is *)
(* held as [start |-> first position, len |-> number of bytes].            *)
(*                                                                         *)
(* Progress lines printed to standard output in verbose mode are not part  *)
(* of the state; the one place where verbose mode changes control flow     *)
(* (the final report in the finally block) is modelled.                    *)
(***************************************************************************)
EXTENDS Integers, Sequences, FiniteSets, TLC

(***************************************************************************)
(* Constants of player.py, lines 13-40.                                    *)
(***************************************************************************)
N_OF_PIXELS_PER_PMT == 64
N_OF_KI_PER_PMT == 8
N_OF_SPARE_PER_PMT == 8
N_OF_PMT_PER_ECASIC == 6
N_OF_ECASIC_PER_PDM == 6
N_OF_PMTS_IN_FRAME == N_OF_PMT_PER_ECASIC * N_OF_ECASIC_PER_PDM
N_OF_FRAMES_D3_V0 == 100
DATA_ONLY_PER_PMT_SIZE_BYTES == N_OF_PIXELS_PER_PMT * 4
FULL_PMT_L3_GEN_SIZE_BYTES ==
    (N_OF_PIXELS_PER_PMT + N_OF_KI_PER_PMT + N_OF_SPARE_PER_PMT) * 4
FRAME_SPB_2_L3_V0_SIZE_BYTES == N_OF_PMTS_IN_FRAME * FULL_PMT_L3_GEN_SIZE_BYTES
Z_DATA_TYPE_SCI_L3_V3_SIZE == 1152064
\* (variant: the offset with one 256-byte block counted into the header)
FRAMES_OFFSET_wrong == 28 + 4 * 64
FRAMES_OFFSET == 28

(***************************************************************************)
(* Bounds of the model and the inputs main() is run on.                    *)
(***************************************************************************)
\* The input stream holds 0..MaxRecords full records, then a tail.
MaxRecords == 2
\* Lengths of the tail that follows the full records (0: none).
TailLens == {0, 1, Z_DATA_TYPE_SCI_L3_V3_SIZE - 1}
StreamLens ==
    {n * Z_DATA_TYPE_SCI_L3_V3_SIZE + t : n \in 0..MaxRecords, t \in TailLens}
\* The `pause' argument (type=int, milliseconds): any integer is accepted.
\* time.sleep takes 0 as it takes every positive pause, and no other line
\* reads the pause.
Pauses == {-1, 0}
\* The `filename' argument; NoFile is the default None (read stdin).
NoFile == "None"
ExistingFiles == {"data.bin"}
Filenames == {NoFile, "data.bin", "missing.bin", "unreadable.bin"}
FilesNotFound == {"missing.bin"}
\* The `destination' argument, as sequences of characters.
Host == <<"1", ".", "2", ".", "3", ".", "4">>
Destinations ==
    { <<"b", "a", "d">>,
      Host \o <<":", "0">>,
      Host \o <<":", "9", "9", "9", "9", "9">>,
      Host \o <<":", "6", "5", "5", "3", "5">>,
      Host \o <<":", "6", "5", "5", "3", "6">>,
      Host \o <<":", "-", "1">>,
      Host \o <<":", "x">>,
      Host \o <<":">>,
      Host \o <<":", "8", "0", ":", "1">> }

VARIABLES
    filename, destination, pause, verbose,   \* args (line 64)
    stream_len,            \* environment: number of bytes the input holds
    stream_pos,            \* environment: read position of the input
    pc,                    \* position of main()
    ip_addr, port,         \* lines 67-68
    pause_sec,             \* line 75, held in thousandths of a second
    sock,                  \* "none", "open", "closed"
    input_stream,          \* "None", "file", "stdin" (lines 83-88)
    file_state,            \* the named file: "unopened", "open", "closed"
    stdin_state,           \* sys.stdin.buffer: "open", "closed"
    counters_bound,        \* line 92-93 executed: the two counters exist
    total_packets_sent, record_num,
    record_data,           \* line 96
    frame_idx,             \* line 108
    udp_payload,           \* lines 110-122
    loop_exit,             \* how the while loop ended
    raised,                \* which call raised, "none" if none did
    stderr,                \* the reports on standard error, in order
    exit_status,           \* status of the process once pc = "exited"
    wire,                  \* the last datagram handed to the network
    n_reads, n_sends, n_sleeps   \* completed read(), sendto(), sleep() calls

vars == <<filename, destination, pause, verbose, stream_len, stream_pos, pc,
          ip_addr, port, pause_sec, sock, input_stream, file_state,
          stdin_state, counters_bound, total_packets_sent, record_num,
          record_data, frame_idx, udp_payload, loop_exit, raised, stderr,
          exit_status, wire, n_reads, n_sends, n_sleeps>>

envVars == <<filename, destination, pause, verbose, stream_len>>

Min(a, b) == IF a < b THEN a ELSE b
Max(a, b) == IF a < b THEN b ELSE a

(***************************************************************************)
(* str.split(sep), int(str) and the port check of lines 67-70.             *)
(***************************************************************************)
RECURSIVE str_split(_, _)
str_split(s, sep) ==
    IF \A i \in 1..Len(s) : s[i] # sep
    THEN <<s>>
    ELSE LET k == CHOOSE i \in 1..Len(s) :
                     s[i] = sep /\ \A j \in 1..(i - 1) : s[j] # sep
         IN  <<SubSeq(s, 1, k - 1)>> \o str_split(SubSeq(s, k + 1, Len(s)), sep)

DigitChars == {"0", "1", "2", "3", "4", "5", "6", "7", "8", "9"}
DigitVal(c) ==
    CASE c = "0" -> 0 [] c = "1" -> 1 [] c = "2" -> 2 [] c = "3" -> 3
      [] c = "4" -> 4 [] c = "5" -> 5 [] c = "6" -> 6 [] c = "7" -> 7
      [] c = "8" -> 8 [] c = "9" -> 9

RECURSIVE DecimalVal(_)
DecimalVal(ds) ==
    IF Len(ds) = 0 THEN 0
    ELSE 10 * DecimalVal(SubSeq(ds, 1, Len(ds) - 1)) + DigitVal(ds[Len(ds)])

\* int(s) accepts an optional sign followed by at least one digit (the
\* destinations above hold no blanks and no underscores).
HasSign(s) == Len(s) > 0 /\ s[1] \in {"+", "-"}
Unsigned(s) == IF HasSign(s) THEN SubSeq(s, 2, Len(s)) ELSE s
IsIntLiteral(s) ==
    /\ Len(Unsigned(s)) > 0
    /\ \A i \in 1..Len(Unsigned(s)) : Unsigned(s)[i] \in DigitChars
int(s) ==
    IF HasSign(s) /\ s[1] = "-" THEN 0 - DecimalVal(Unsigned(s))
    ELSE DecimalVal(Unsigned(s))

\* (variant: both ends of the range accepted)
PortInRange_inclusive(p) == 0 <= p /\ p <= 65536
\* line 69: 0 < port < 65536
PortInRange(p) == 0 < p /\ p < 65536

\* Lines 66-70 raise no ValueError: the split has exactly two parts (tuple
\* unpacking), the second is an integer literal, and the port is in range.
DestinationOK(d) ==
    LET parts == str_split(d, ":")
    IN  /\ Len(parts) = 2
        /\ IsIntLiteral(parts[2])
        /\ PortInRange(int(parts[2]))

(***************************************************************************)
(* Byte strings by provenance.                                             *)
(***************************************************************************)
Run(a, b) == [lo |-> a, hi |-> b]
EmptyBytes == << >>

\* bytearray.extend: append the bytes of run r to byte string p.
Extend(p, r) ==
    IF r.hi <= r.lo THEN p
    ELSE IF Len(p) > 0 /\ p[Len(p)].hi = r.lo
         THEN [p EXCEPT ![Len(p)] = Run(p[Len(p)].lo, r.hi)]
         ELSE Append(p, r)

RECURSIVE BytesLen(_)
BytesLen(p) ==
    IF Len(p) = 0 THEN 0
    ELSE (p[Len(p)].hi - p[Len(p)].lo) + BytesLen(SubSeq(p, 1, Len(p) - 1))

\* record_data[a : b] for 0 <= a <= b: Python clamps both ends to the length.
Slice(data, a, b) ==
    Run(data.start + Min(a, data.len), data.start + Min(Max(a, b), data.len))

\* stream.read(n): the next min(n, remaining) bytes of the stream.
ReadResult(pos, len, n) == [start |-> pos, len |-> Min(n, len - pos)]

\* line 113
frame_start_byte(f) == FRAMES_OFFSET + (f * FRAME_SPB_2_L3_V0_SIZE_BYTES)
\* (variant: the PMT blocks stepped by the size of the data field)
pmt_start_byte_packed(f, c) ==
    frame_start_byte(f) + (c * DATA_ONLY_PER_PMT_SIZE_BYTES)
\* line 118
pmt_start_byte(f, c) == frame_start_byte(f) + (c * FULL_PMT_L3_GEN_SIZE_BYTES)
\* line 120
pmt_data_only(data, f, c) ==
    Slice(data, pmt_start_byte(f, c),
          pmt_start_byte(f, c) + DATA_ONLY_PER_PMT_SIZE_BYTES)

\* lines 110-122: the payload after the first n iterations of the PMT loop
\* (the singleton sets bind the payload of the earlier iterations and the
\* slice of this one, so that each is computed once).
RECURSIVE PayloadAfter(_, _, _)
PayloadAfter(data, f, n) ==
    IF n = 0 THEN EmptyBytes
    ELSE CHOOSE p \in { Extend(before, slice) :
                            before \in {PayloadAfter(data, f, n - 1)},
                            slice \in {pmt_data_only(data, f, n - 1)} } : TRUE

BuildPayload(data, f) == PayloadAfter(data, f, N_OF_PMTS_IN_FRAME)

\* (variant: an empty read not told apart from a short one)
IsEndOfStream_never(data) == FALSE
\* line 97: `if not record_data'
IsEndOfStream(data) == data.len = 0
\* (variant: a short read taken for a record)
IsTruncated_never(data) == FALSE
\* line 99
IsTruncated(data) == data.len < Z_DATA_TYPE_SCI_L3_V3_SIZE

\* (variant: whatever stream is in use is closed)
ClosesInput_always(stream, name) == stream # "None"
\* line 145: `if input_stream and args.filename'
ClosesInput(stream, name) == stream # "None" /\ name # NoFile

\* (variant: the range one frame short)
HasNextFrame_offbyone(f) == f + 2 < N_OF_FRAMES_D3_V0
\* line 108: range(N_OF_FRAMES_D3_V0) has a frame after f.
HasNextFrame(f) == f + 1 < N_OF_FRAMES_D3_V0

(***************************************************************************)
(* The state when main() is entered, after parse_args (line 64).           *)
(***************************************************************************)
NoDatagram == [payload |-> EmptyBytes, ip |-> << >>, port |-> 0]

Init ==
    /\ filename \in Filenames
    /\ destination \in Destinations
    /\ pause \in Pauses
    /\ verbose \in BOOLEAN
    /\ stream_len \in StreamLens
    /\ stream_pos = 0
    /\ pc = "parse"
    /\ ip_addr = << >>
    /\ port = 0
    /\ pause_sec = 0
    /\ sock = "none"
    /\ input_stream = "None"
    /\ file_state = "unopened"
    /\ stdin_state = "open"
    /\ counters_bound = FALSE
    /\ total_packets_sent = 0
    /\ record_num = 0
    /\ record_data = [start |-> 0, len |-> 0]
    /\ frame_idx = 0
    /\ udp_payload = EmptyBytes
    /\ loop_exit = "none"
    /\ raised = "none"
    /\ stderr = << >>
    /\ exit_status = 0
    /\ wire = NoDatagram
    /\ n_reads = 0
    /\ n_sends = 0
    /\ n_sleeps = 0

(***************************************************************************)
(* Lines 66-73: parse and validate the destination.  A ValueError is       *)
(* reported and the process exits with status 1, outside any try/finally.  *)
(***************************************************************************)
ParseDestination ==
    /\ pc = "parse"
    /\ IF DestinationOK(destination)
       THEN /\ ip_addr' = str_split(destination, ":")[1]
            /\ port' = int(str_split(destination, ":")[2])
            /\ pc' = "socket"
            /\ UNCHANGED <<raised, stderr, exit_status>>
       ELSE /\ raised' = "ValueError"
            /\ stderr' = Append(stderr, "bad_destination")
            /\ exit_status' = 1
            /\ pc' = "exited"
            /\ UNCHANGED <<ip_addr, port>>
    /\ UNCHANGED <<envVars, stream_pos, pause_sec, sock, input_stream,
                   file_state, stdin_state, counters_bound,
                   total_packets_sent, record_num, record_data, frame_idx,
                   udp_payload, loop_exit, wire, n_reads, n_sends, n_sleeps>>

(***************************************************************************)
(* Lines 75-81: pause_sec, then the socket.  Whether socket() succeeds is  *)
(* the operating system's choice.                                          *)
(***************************************************************************)
CreateSocket ==
    /\ pc = "socket"
    /\ pause_sec' = pause
    /\ \E ok \in BOOLEAN :
         IF ok
         THEN /\ sock' = "open"
              /\ pc' = "open"
              /\ UNCHANGED <<raised, stderr, exit_status>>
         ELSE /\ raised' = "socket.error"
              /\ stderr' = Append(stderr, "socket_error")
              /\ exit_status' = 1
              /\ pc' = "exited"
              /\ UNCHANGED sock
    /\ UNCHANGED <<envVars, stream_pos, ip_addr, port, input_stream,
                   file_state, stdin_state, counters_bound,
                   total_packets_sent, record_num, record_data, frame_idx,
                   udp_payload, loop_exit, wire, n_reads, n_sends, n_sleeps>>

(***************************************************************************)
(* Lines 83-93: open the named file or take standard input, then set the   *)
(* counters.  open() raises FileNotFoundError for a missing file and       *)
(* another OSError for a file that cannot be opened.                       *)
(***************************************************************************)
OpenInput ==
    /\ pc = "open"
    /\ IF filename # NoFile /\ filename \notin ExistingFiles
       THEN /\ raised' = IF filename \in FilesNotFound
                         THEN "FileNotFoundError" ELSE "OSError"
            /\ pc' = IF filename \in FilesNotFound
                     THEN "except_fnf" ELSE "except"
            /\ UNCHANGED <<input_stream, file_state, counters_bound,
                           total_packets_sent, record_num>>
       ELSE /\ input_stream' = IF filename # NoFile THEN "file" ELSE "stdin"
            /\ file_state' = IF filename # NoFile THEN "open" ELSE file_state
            /\ counters_bound' = TRUE
            /\ total_packets_sent' = 0
            /\ record_num' = 0
            /\ pc' = "read"
            /\ UNCHANGED raised
    /\ UNCHANGED <<envVars, stream_pos, ip_addr, port, pause_sec, sock,
                   stdin_state, record_data, frame_idx, udp_payload,
                   loop_exit, stderr, exit_status, wire, n_reads, n_sends,
                   n_sleeps>>

(***************************************************************************)
(* Lines 95-105: one pass through the head of the while loop.              *)
(***************************************************************************)
ReadRecord ==
    /\ pc = "read"
    /\ LET data == ReadResult(stream_pos, stream_len,
                              Z_DATA_TYPE_SCI_L3_V3_SIZE)
       IN  /\ record_data' = data
           /\ stream_pos' = stream_pos + data.len
           /\ n_reads' = n_reads + 1
           /\ IF IsEndOfStream(data)
              THEN /\ loop_exit' = "END_OF_STREAM"
                   /\ pc' = "finally"
                   /\ UNCHANGED <<stderr, record_num, frame_idx>>
              ELSE IF IsTruncated(data)
              THEN /\ stderr' = Append(stderr, "truncated")
                   /\ loop_exit' = "TRUNCATED"
                   /\ pc' = "finally"
                   /\ UNCHANGED <<record_num, frame_idx>>
              ELSE /\ record_num' = record_num + 1
                   /\ frame_idx' = 0
                   /\ pc' = "frame"
                   /\ UNCHANGED <<stderr, loop_exit>>
    /\ UNCHANGED <<envVars, ip_addr, port, pause_sec, sock, input_stream,
                   file_state, stdin_state, counters_bound,
                   total_packets_sent, udp_payload, raised, exit_status,
                   wire, n_sends, n_sleeps>>

(***************************************************************************)
(* Lines 110-126: build the payload of frame frame_idx and send it.        *)
(* sendto() either hands the datagram to the network or raises OSError.    *)
(***************************************************************************)
SendFrame ==
    /\ pc = "frame"
    /\ udp_payload' = BuildPayload(record_data, frame_idx)
    /\ \E ok \in BOOLEAN :
         IF ok
         THEN /\ wire' = [payload |-> udp_payload', ip |-> ip_addr,
                          port |-> port]
              /\ n_sends' = n_sends + 1
              /\ total_packets_sent' = total_packets_sent + 1
              /\ pc' = "sleep"
              /\ UNCHANGED raised
         ELSE /\ raised' = "sendto"
              /\ pc' = "except"
              /\ UNCHANGED <<wire, n_sends, total_packets_sent>>
    /\ UNCHANGED <<envVars, stream_pos, ip_addr, port, pause_sec, sock,
                   input_stream, file_state, stdin_state, counters_bound,
                   record_num, record_data, frame_idx, loop_exit, stderr,
                   exit_status, n_reads, n_sleeps>>

(***************************************************************************)
(* Lines 136 and 108/95: sleep, then go on to the next frame or, after the *)
(* last frame, to the next read.  time.sleep raises ValueError for a       *)
(* negative argument.                                                      *)
(***************************************************************************)
\* (variant: the sleep placed between the frames of a record only, none
\* after the last frame)
Pause_between_frames_only ==
    /\ pc = "sleep"
    /\ IF pause_sec < 0 /\ HasNextFrame(frame_idx)
       THEN /\ raised' = "sleep"
            /\ pc' = "except"
            /\ UNCHANGED <<n_sleeps, frame_idx>>
       ELSE /\ IF HasNextFrame(frame_idx)
               THEN /\ n_sleeps' = n_sleeps + 1
                    /\ frame_idx' = frame_idx + 1
                    /\ pc' = "frame"
               ELSE /\ UNCHANGED <<n_sleeps, frame_idx>>
                    /\ pc' = "read"
            /\ UNCHANGED raised
    /\ UNCHANGED <<envVars, stream_pos, ip_addr, port, pause_sec, sock,
                   input_stream, file_state, stdin_state, counters_bound,
                   total_packets_sent, record_num, record_data, udp_payload,
                   loop_exit, stderr, exit_status, wire, n_reads, n_sends>>

Pause ==
    /\ pc = "sleep"
    /\ IF pause_sec < 0
       THEN /\ raised' = "sleep"
            /\ pc' = "except"
            /\ UNCHANGED <<n_sleeps, frame_idx>>
       ELSE /\ n_sleeps' = n_sleeps + 1
            /\ IF HasNextFrame(frame_idx)
               THEN frame_idx' = frame_idx + 1 /\ pc' = "frame"
               ELSE frame_idx' = frame_idx /\ pc' = "read"
            /\ UNCHANGED raised
    /\ UNCHANGED <<envVars, stream_pos, ip_addr, port, pause_sec, sock,
                   input_stream, file_state, stdin_state, counters_bound,
                   total_packets_sent, record_num, record_data, udp_payload,
                   loop_exit, stderr, exit_status, wire, n_reads, n_sends>>

(***************************************************************************)
(* Lines 138-143: the two handlers.  Each reports and calls sys.exit(1),   *)
(* which raises SystemExit through the finally block.                      *)
(***************************************************************************)
HandleFileNotFound ==
    /\ pc = "except_fnf"
    /\ stderr' = Append(stderr, "file_not_found")
    /\ exit_status' = 1
    /\ pc' = "finally"
    /\ UNCHANGED <<envVars, stream_pos, ip_addr, port, pause_sec, sock,
                   input_stream, file_state, stdin_state, counters_bound,
                   total_packets_sent, record_num, record_data, frame_idx,
                   udp_payload, loop_exit, raised, wire, n_reads, n_sends,
                   n_sleeps>>

HandleException ==
    /\ pc = "except"
    /\ stderr' = Append(stderr, "unexpected_error")
    /\ exit_status' = 1
    /\ pc' = "finally"
    /\ UNCHANGED <<envVars, stream_pos, ip_addr, port, pause_sec, sock,
                   input_stream, file_state, stdin_state, counters_bound,
                   total_packets_sent, record_num, record_data, frame_idx,
                   udp_payload, loop_exit, raised, wire, n_reads, n_sends,
                   n_sleeps>>

(***************************************************************************)
(* Lines 144-149 and the end of the process.  The final report reads       *)
(* total_packets_sent; when open() raised, line 92 never ran, the read     *)
(* raises UnboundLocalError and the interpreter prints a traceback and     *)
(* exits with status 1.  Otherwise the status is that of the pending       *)
(* SystemExit, or 0 when main() returns.                                   *)
(***************************************************************************)
Cleanup ==
    /\ pc = "finally"
    /\ IF ClosesInput(input_stream, filename)
       THEN /\ file_state' = IF input_stream = "file" THEN "closed"
                             ELSE file_state
            /\ stdin_state' = IF input_stream = "stdin" THEN "closed"
                              ELSE stdin_state
       ELSE UNCHANGED <<file_state, stdin_state>>
    /\ sock' = "closed"
    /\ IF verbose /\ ~counters_bound
       THEN /\ stderr' = Append(stderr, "traceback")
            /\ exit_status' = 1
       ELSE UNCHANGED <<stderr, exit_status>>
    /\ pc' = "exited"
    /\ UNCHANGED <<envVars, stream_pos, ip_addr, port, pause_sec,
                   input_stream, counters_bound, total_packets_sent,
                   record_num, record_data, frame_idx, udp_payload,
                   loop_exit, raised, wire, n_reads, n_sends, n_sleeps>>

Next ==
    \/ ParseDestination
    \/ CreateSocket
    \/ OpenInput
    \/ ReadRecord
    \/ SendFrame
    \/ Pause
    \/ HandleFileNotFound
    \/ HandleException
    \/ Cleanup

Spec == Init /\ [][Next]_vars

\* main() is one sequential thread: a step that can be taken is taken.
FairSpec == Spec /\ WF_vars(Next)

TypeOK ==
    /\ pc \in {"parse", "socket", "open", "read", "frame", "sleep",
               "except_fnf", "except", "finally", "exited"}
    /\ sock \in {"none", "open", "closed"}
    /\ frame_idx \in 0..(N_OF_FRAMES_D3_V0 - 1)
    /\ stream_pos \in 0..stream_len

(***************************************************************************)
(* The claims.  They are stated with the numbers of the file format        *)
(* (1,152,064-byte records, a 28-byte header, 100 frames of 36 blocks of   *)
(* 320 bytes, 256 of them forwarded), not with the program's constants.    *)
(***************************************************************************)
\* The input was opened: main() reached the driver loop.
LoopReached == input_stream # "None"
\* The number of full records in the input, and the bytes after them.
FullRecords == stream_len \div 1152064
TailBytes == stream_len % 1152064

\* The 36 data fields of frame f of the record that starts at stream
\* position base, in ascending channel order.
DataFieldsOf(base, f) ==
    [c \in 1..36 |->
        Run(base + 28 + f * 11520 + (c - 1) * 320,
            base + 28 + f * 11520 + (c - 1) * 320 + 256)]

\* Every byte of run r lies in the data field of one channel block of frame
\* f of the record starting at base: not in the header, not in the trailing
\* 64 bytes of a block, not in another frame or record.
RunInDataField(r, base, f) ==
    LET first == r.lo - (base + 28 + f * 11520)
        last  == (r.hi - 1) - (base + 28 + f * 11520)
    IN  /\ r.lo < r.hi
        /\ r.lo >= base + 28
        /\ r.hi <= base + 1152064
        /\ first >= 0
        /\ last < 11520
        /\ first \div 320 = last \div 320
        /\ last % 320 < 256

\* C1: the payload sent for frame f of a full record is the concatenation,
\* in channel order 0..35, of record bytes [28 + f*11520 + c*320, +256): it
\* is 9216 bytes long and holds no byte of the header, of the trailing 64
\* bytes of a block, of another frame or of another record.
C1_PayloadIsFrameData ==
    pc = "sleep" =>
        /\ record_data.len = 1152064
        /\ record_data.start = (record_num - 1) * 1152064
        /\ frame_idx \in 0..99
        /\ wire.payload = DataFieldsOf(record_data.start, frame_idx)
        /\ wire.payload = udp_payload
        /\ BytesLen(wire.payload) = 9216
        /\ \A i \in 1..Len(wire.payload) :
               RunInDataField(wire.payload[i], record_data.start, frame_idx)

C1_Witness ==
    /\ pc = "sleep"
    /\ record_num = 2
    /\ frame_idx = 99
    /\ wire.payload = DataFieldsOf(1152064, 99)

\* The k-th datagram (k from 0) carries frame (k mod 100) of record
\* (k div 100): checked in the state that follows each send.
KthDatagramInOrder ==
    pc = "sleep" =>
        LET k == n_sends - 1
        IN  /\ wire.payload = DataFieldsOf((k \div 100) * 1152064, k % 100)
            /\ record_num - 1 = k \div 100
            /\ frame_idx = k % 100
            /\ total_packets_sent = n_sends

C3_TruncatedExitsNonZero ==
    (pc = "exited" /\ LoopReached /\ stream_len >= 1 /\ stream_len < 1152064)
        => /\ n_sends = 0
           /\ stderr = <<"truncated">>
           /\ exit_status # 0

\* What a stream of one full record and K more bytes (0 < K < RECORD_BYTES)
\* comes to: 100 datagrams, then the truncation report; and the short read
\* is terminal, the second read being the last and no send following it.
OneRecordThenShortRead ==
    /\ pc = "exited" =>
           /\ n_sends = 100
           /\ loop_exit = "TRUNCATED"
           /\ stderr = <<"truncated">>
    /\ loop_exit = "TRUNCATED" =>
           /\ pc \in {"finally", "exited"}
           /\ n_reads = 2
           /\ n_sends = 100
           /\ stream_pos = stream_len

C5_EmptyStreamClean ==
    (LoopReached /\ stream_len = 0) =>
        /\ n_sends = 0
        /\ stderr = << >>
        /\ exit_status = 0
        /\ loop_exit # "TRUNCATED"
        /\ pc \in {"read", "finally", "exited"}
        /\ pc \in {"finally", "exited"} =>
               loop_exit = "END_OF_STREAM" /\ n_reads = 1

C5_Witness ==
    /\ pc = "exited"
    /\ LoopReached
    /\ stream_len = 0
    /\ loop_exit = "END_OF_STREAM"
    /\ exit_status = 0

\* A destination of the form ip:port: one colon, and after it an integer
\* in (0, 65536).
ColonAt(d) == {i \in 1..Len(d) : d[i] = ":"}
IsIpPort(d) ==
    /\ Cardinality(ColonAt(d)) = 1
    /\ LET k == CHOOSE i \in ColonAt(d) : TRUE
           p == SubSeq(d, k + 1, Len(d))
       IN  /\ IsIntLiteral(p)
           /\ int(p) \in 1..65535

\* C6: a destination that is not ip:port with a port in (0, 65536) makes
\* main report an error and exit non-zero before a socket is created and
\* before the input is opened or read; no datagram is sent.
C6_BadDestinationRejected ==
    ~IsIpPort(destination) =>
        /\ sock = "none"
        /\ input_stream = "None"
        /\ file_state = "unopened"
        /\ stream_pos = 0
        /\ n_reads = 0
        /\ n_sends = 0
        /\ pc \in {"parse", "exited"}
        /\ pc = "exited" =>
               exit_status # 0 /\ stderr = <<"bad_destination">>

C6_Witness ==
    /\ pc = "exited"
    /\ destination = Host \o <<":", "0">>
    /\ exit_status = 1
    /\ sock = "none"

\* C7: on every exit path after the socket was created the socket is
\* closed when the process ends, a named file that was opened is closed,
\* and standard input is never closed.
C7_ResourcesReleased ==
    /\ stdin_state = "open"
    /\ (pc = "exited" /\ sock # "none") =>
           /\ sock = "closed"
           /\ file_state # "open"
           /\ input_stream = "file" => file_state = "closed"

C7_Witness ==
    /\ pc = "exited"
    /\ raised = "sendto"
    /\ verbose
    /\ input_stream = "file"
    /\ file_state = "closed"
    /\ sock = "closed"
    /\ n_sends = 150

\* C8: sends and pauses alternate, each send being followed by one pause
\* before the next send or read; and a record is read only when every
\* frame of the records read so far has been sent and followed by its
\* pause.
C8_SendPauseAlternate ==
    [][ /\ n_sends' # n_sends =>
               n_sends' = n_sends + 1 /\ n_sleeps = n_sends
        /\ n_sleeps' # n_sleeps =>
               n_sleeps' = n_sleeps + 1 /\ n_sleeps' = n_sends
        /\ n_reads' # n_reads =>
               /\ n_reads' = n_reads + 1
               /\ n_sends = 100 * n_reads
               /\ n_sleeps = n_sends ]_vars

C8_Witness ==
    /\ pc = "frame"
    /\ n_reads = 2
    /\ n_sends = 100
    /\ n_sleeps = 100

C10_SlicesInsideRecord ==
    /\ pc = "frame" =>
           \A c \in 0..35 :
               /\ pmt_start_byte(frame_idx, c) + DATA_ONLY_PER_PMT_SIZE_BYTES
                      = 28 + frame_idx * 11520 + c * 320 + 256
               /\ pmt_start_byte(frame_idx, c) + DATA_ONLY_PER_PMT_SIZE_BYTES
                      <= record_data.len
               /\ record_data.len = 1152064
               /\ pmt_data_only(record_data, frame_idx, c).hi
                      - pmt_data_only(record_data, frame_idx, c).lo = 256
    /\ n_sends > 0 => BytesLen(wire.payload) = 9216

C10_Witness ==
    /\ pc = "frame"
    /\ frame_idx = 99
    /\ record_num = 2
    /\ pmt_start_byte(99, 35) + DATA_ONLY_PER_PMT_SIZE_BYTES = 1151964

====
